---- MODULE Spec2Model ----
(***************************************************************************)
(* Patient trend dashboard (WellDoc): record normalisation, series merge,  *)
(* filter, metrics, histogram / quartiles and the rule-based insights.     *)
(*                                                                         *)
(* Instants are integers counted in hours (the code adds index * 3600000   *)
(* ms to a base instant); an Invalid Date is the empty tuple NaNDate and a *)
(* valid Date at instant t is <<t>>.  An optional attribute is <<>> when   *)
(* undefined and <<v>> when it holds the number v.  JavaScript numbers     *)
(* produced by divisions are kept exact: a finite number is a fraction     *)
(* n/d with d > 0, and the IEEE results of a division by zero are the      *)
(* values NaN, +Infinity and -Infinity.                                    *)
(***************************************************************************)
EXTENDS Integers, Sequences, FiniteSets, TLC

VARIABLES
    pc,                 \* position of loadCSVData: "fetch", "text", "parse", "done"
    response,           \* per source, the fetch: "pending", "ok", "notok", "rejected"
    text,               \* per source, response.text(): "idle", "pending", "resolved", "rejected"
    parse,              \* per source, parseCSV: "idle", "pending", "resolved", "rejected"
    rawRows,            \* per source, the rows parseCSV resolved to
    source,             \* the path that built the Series: "none", "csv", "sample"
    data,               \* App state: the Series
    loading,            \* App state
    error,              \* App state: <<>> is null, <<m>> the message
    selectedAttribute,  \* App state
    dataTypeFilter,     \* App state
    dateRange,          \* App state: [start, end], each a Date
    filteredData,       \* useMemo: the Working Set
    metrics,            \* useMemo
    insights,           \* useMemo: generateInsights(...)
    histogramData,      \* DistributionCharts: createHistogramData()
    boxPlotData         \* DistributionCharts: createBoxPlotData()

vars == <<pc, response, text, parse, rawRows, source, data, loading, error,
          selectedAttribute, dataTypeFilter, dateRange, filteredData, metrics,
          insights, histogramData, boxPlotData>>

loadVars == <<pc, response, text, parse, rawRows, source, loading, error>>

criteriaVars == <<selectedAttribute, dataTypeFilter, dateRange>>

-----------------------------------------------------------------------------
(* Types                                                                   *)

AttributeKey == {"StressIndex", "HeartRate", "SystolicBP", "DiastolicBP"}

DataTypeFilter == {"Both", "Historical", "Predicted"}

DataType == {"Historical", "Predicted"}

Undefined == <<>>

NaNDate == <<>>

DateOf(t) == <<t>>

getTime(d) == d[1]

IsNaNDate(d) == d = NaNDate

-----------------------------------------------------------------------------
(* Sequence helpers: Array.prototype.map / filter / reduce                 *)

RECURSIVE SumSeq(_)
SumSeq(s) == IF s = <<>> THEN 0 ELSE Head(s) + SumSeq(Tail(s))

MinOf(s) == CHOOSE x \in {s[i] : i \in 1..Len(s)} :
                \A y \in {s[i] : i \in 1..Len(s)} : x <= y

MaxOf(s) == CHOOSE x \in {s[i] : i \in 1..Len(s)} :
                \A y \in {s[i] : i \in 1..Len(s)} : x >= y

\* Array.prototype.sort with a numeric comparator cmp(a, b) = key(a) - key(b);
\* keys[i] is the key of s[i].  The sort is stable: the element at index i
\* goes after every element with a smaller key and after every earlier
\* element with an equal key.
SortByKey(s, keys) ==
    LET pos(i) == 1 + Cardinality({j \in 1..Len(s) :
                        \/ keys[j] < keys[i]
                        \/ keys[j] = keys[i] /\ j < i})
    IN  [k \in 1..Len(s) |-> s[CHOOSE i \in 1..Len(s) : pos(i) = k]]

\* Array.prototype.sort((a, b) => a - b) on numbers
SortNumbers(values) == SortByKey(values, values)

-----------------------------------------------------------------------------
(* Raw rows as Papa.parse delivers them (header: true, dynamicTyping: true) *)
(* A cell is [k, v]: k is the JavaScript kind of the value, v its number   *)
(* or instant (0 when the kind carries none).                              *)

Cell(k, v) == [k |-> k, v |-> v]

Missing == Cell("undefined", 0)       \* the column is not in the file

NullCell == Cell("null", 0)           \* an empty field

EmptyCell == Cell("empty", 0)         \* the empty string

TextCell == Cell("string", 0)         \* a non-empty text that is no date

DateText(t) == Cell("datestring", t)  \* a text that Date parses to instant t

NumCell(v) == Cell("number", v)

\* JavaScript truthiness, the test of `if (row.datetime)`.
Truthy(c) ==
    \/ c.k \in {"string", "datestring"}
    \/ c.k = "number" /\ c.v # 0

\* new Date(value)
NewDate(c) ==
    CASE c.k = "datestring" -> DateOf(c.v)
      [] c.k = "number"     -> DateOf(c.v)
      [] c.k = "null"       -> DateOf(0)
      [] OTHER              -> NaNDate

\* NumberOrUndefined with 0 in place of undefined for a value that is no number.
NumberOrZero(c) == IF c.k = "number" THEN <<c.v>> ELSE <<0>>

\* typeof value === 'number' ? value : undefined
NumberOrUndefined(c) == IF c.k = "number" THEN <<c.v>> ELSE Undefined

HistoricalDays == 180

HoursPerDay == 24

\* Date.now(): the epoch of the model is placed 180 days before it.
Now == HistoricalDays * HoursPerDay

\* baseDate of the synthetic datetime
BaseDate(dataType) ==
    IF dataType = "Historical" THEN Now - HistoricalDays * HoursPerDay ELSE Now

SyntheticDate(dataType, index) == DateOf(BaseDate(dataType) + index)

\* The column the if / else-if chain reads the datetime from.
ParsedDate(row, dataType, index) ==
    IF Truthy(row.datetime) THEN NewDate(row.datetime)
    ELSE IF Truthy(row.date) THEN NewDate(row.date)
    ELSE IF Truthy(row.timestamp) THEN NewDate(row.timestamp)
    ELSE SyntheticDate(dataType, index)

\* EnsureValid without the validity check.
EnsureValidUnchecked(datetime, dataType, index) == datetime

\* `if (isNaN(datetime.getTime()))`: the validity check after the chain.
EnsureValid(datetime, dataType, index) ==
    IF IsNaNDate(datetime) THEN SyntheticDate(dataType, index) ELSE datetime

\* One record of processPatientData; index is the 0-based position in rawData.
\* The other columns that `...row` copies are read by nothing downstream.
ProcessRow(row, dataType, index) ==
    [datetime    |-> EnsureValid(ParsedDate(row, dataType, index), dataType, index),
     dataType    |-> dataType,
     StressIndex |-> NumberOrUndefined(row.StressIndex),
     HeartRate   |-> NumberOrUndefined(row.HeartRate),
     SystolicBP  |-> NumberOrUndefined(row.SystolicBP),
     DiastolicBP |-> NumberOrUndefined(row.DiastolicBP)]

processPatientData(rawData, dataType) ==
    [i \in 1..Len(rawData) |-> ProcessRow(rawData[i], dataType, i - 1)]

\* a.datetime.getTime() of every record
DatetimeKeys(s) == [i \in 1..Len(s) |-> getTime(s[i].datetime)]

\* MergeSeries without the sort.
MergeSeriesUnsorted(hRaw, pRaw) ==
    processPatientData(hRaw, "Historical") \o processPatientData(pRaw, "Predicted")

\* [...historicalData, ...predictedData].sort((a, b) => a.datetime - b.datetime)
MergeSeries(hRaw, pRaw) ==
    LET merged == processPatientData(hRaw, "Historical")
                    \o processPatientData(pRaw, "Predicted")
    IN  SortByKey(merged, DatetimeKeys(merged))

\* generateSampleData: the historical loop runs i = SampleHistoricalHours
\* down to 0, the predicted loop i = 1 up to SamplePredictedHours (180 * 24 and
\* 90 * 24 in the code).  rnd[k] is the Math.random() contribution to the
\* k-th pushed record, added to the base of each attribute.
SampleHistoricalHours == 1

SamplePredictedHours == 1

SampleSize == SampleHistoricalHours + 1 + SamplePredictedHours

RandomDraws == {0, 1}

\* The sequences of draws of one call: all equal, and the two alternating ones.
RandomSequences ==
    {[k \in 1..SampleSize |-> 0],
     [k \in 1..SampleSize |-> k % 2],
     [k \in 1..SampleSize |-> (k + 1) % 2]}

SampleRecord(t, dataType, r) ==
    [datetime    |-> DateOf(t),
     dataType    |-> dataType,
     StressIndex |-> <<(IF dataType = "Historical" THEN 45 ELSE 48) + r>>,
     HeartRate   |-> <<(IF dataType = "Historical" THEN 72 ELSE 74) + r>>,
     SystolicBP  |-> <<(IF dataType = "Historical" THEN 118 ELSE 120) + r>>,
     DiastolicBP |-> <<(IF dataType = "Historical" THEN 78 ELSE 80) + r>>]

generateSampleData(rnd) ==
    [k \in 1..SampleSize |->
        IF k <= SampleHistoricalHours + 1
        THEN SampleRecord(Now - (SampleHistoricalHours + 1 - k), "Historical", rnd[k])
        ELSE SampleRecord(Now + (k - SampleHistoricalHours - 1), "Predicted", rnd[k])]

-----------------------------------------------------------------------------
(* JavaScript numbers                                                      *)

Abs(x) == IF x < 0 THEN -x ELSE x

Sign(x) == IF x < 0 THEN -1 ELSE IF x > 0 THEN 1 ELSE 0

RECURSIVE GCD(_, _)
GCD(a, b) == IF b = 0 THEN a ELSE GCD(b, a % b)

\* The finite number n / d (d > 0), in lowest terms.
Fin(n, d) ==
    LET g == GCD(Abs(n), d)
    IN  [k |-> "fin", n |-> n \div g, d |-> d \div g]

NaN == [k |-> "nan", n |-> 0, d |-> 1]

Infinity(sign) == [k |-> "inf", n |-> sign, d |-> 1]

IsFinite(x) == x.k = "fin"

\* x / y for finite x and y: a zero divisor gives NaN (0 / 0) or an infinity.
Divide(x, y) ==
    IF y.n = 0
    THEN IF x.n = 0 THEN NaN ELSE Infinity(Sign(x.n))
    ELSE Fin(Sign(y.n) * x.n * y.d, x.d * Abs(y.n))

Minus(x, y) == Fin(x.n * y.d - y.n * x.d, x.d * y.d)

\* x * c for an integer c > 0
Times(x, c) == IF IsFinite(x) THEN Fin(x.n * c, x.d) ELSE x

\* x > c and x < c for an integer c: every comparison with NaN is false.
Greater(x, c) ==
    CASE x.k = "fin" -> x.n > c * x.d
      [] x.k = "inf" -> x.n > 0
      [] OTHER       -> FALSE

Less(x, c) ==
    CASE x.k = "fin" -> x.n < c * x.d
      [] x.k = "inf" -> x.n < 0
      [] OTHER       -> FALSE

\* Math.floor of a finite number
Floor(x) == x.n \div x.d

\* Math.ceil(a / b) for integers a and b > 0
CeilDiv(a, b) == -((-a) \div b)

\* Math.ceil(Math.sqrt(n)) for n >= 0
CeilSqrt(n) == CHOOSE r \in 0..n : r * r >= n /\ (r = 0 \/ (r - 1) * (r - 1) < n)

\* Number.prototype.toFixed(1): the text of a number, kept as its sign and
\* its count of tenths (round half up on the magnitude).
FixedText(k, neg, tenths) == [k |-> k, neg |-> neg, tenths |-> tenths]

toFixed1(x) ==
    CASE x.k = "nan" -> FixedText("NaN", FALSE, 0)
      [] x.k = "inf" -> FixedText("Infinity", x.n < 0, 0)
      [] OTHER       -> FixedText("decimal", x.n < 0,
                                  (20 * Abs(x.n) + x.d) \div (2 * x.d))

-----------------------------------------------------------------------------
(* App: the filter and the metrics                                         *)

HasAttribute(d, attribute) == d[attribute] # Undefined

ValueOf(d, attribute) == d[attribute][1]

\* a >= b and a <= b on Dates: false when either is an Invalid Date.
DateGE(a, b) == ~IsNaNDate(a) /\ ~IsNaNDate(b) /\ getTime(a) >= getTime(b)

DateLE(a, b) == ~IsNaNDate(a) /\ ~IsNaNDate(b) /\ getTime(a) <= getTime(b)

\* KeepsRecord with an exclusive end of the date range.
KeepsRecordEndExclusive(d, attribute, filter, range) ==
    /\ DateGE(d.datetime, range.start) /\ DateLE(d.datetime, range.end)
    /\ d.datetime # range.end
    /\ HasAttribute(d, attribute)
    /\ filter = "Both" \/ d.dataType = filter

KeepsRecord(d, attribute, filter, range) ==
    LET dateInRange     == DateGE(d.datetime, range.start) /\ DateLE(d.datetime, range.end)
        hasAttribute    == HasAttribute(d, attribute)
        matchesDataType == filter = "Both" \/ d.dataType = filter
    IN  dateInRange /\ hasAttribute /\ matchesDataType

\* filteredData = data.filter(...)
FilterData(series, attribute, filter, range) ==
    LET Keep(d) == KeepsRecord(d, attribute, filter, range)
    IN  SelectSeq(series, Keep)

\* The arrays of the filter: data.filter(...) builds a new array and leaves
\* `data`, the Series, as it was.
FilterDataArrays(series, attribute, filter, range) ==
    [data |-> series, filteredData |-> FilterData(series, attribute, filter, range)]

OfType(s, dataType) ==
    LET Is(d) == d.dataType = dataType
    IN  SelectSeq(s, Is)

ValuesOf(s, attribute) == [i \in 1..Len(s) |-> ValueOf(s[i], attribute)]

Mean(values) == Fin(SumSeq(values), Len(values))

\* ((predictedMean - historicalMean) / historicalMean) * 100
ChangePercentOf(historicalValues, predictedValues) ==
    LET historicalMean == Mean(historicalValues)
        predictedMean  == Mean(predictedValues)
    IN  Times(Divide(Minus(predictedMean, historicalMean), historicalMean), 100)

\* EmptyMetrics with a changePercent of 0.
EmptyMetricsZeroChange ==
    [average |-> [k |-> "fin", n |-> 0, d |-> 1], max |-> 0, min |-> 0,
     totalRecords |-> 0, historicalRecords |-> 0, predictedRecords |-> 0,
     dateSpan |-> 0, changePercent |-> <<[k |-> "fin", n |-> 0, d |-> 1]>>]

EmptyMetrics ==
    [average |-> Fin(0, 1), max |-> 0, min |-> 0, totalRecords |-> 0,
     historicalRecords |-> 0, predictedRecords |-> 0, dateSpan |-> 0,
     changePercent |-> Undefined]

\* MetricsChangePercent that reports 0 when a subset is empty.
MetricsChangePercentZero(historicalData, predictedData, attribute) ==
    IF Len(historicalData) > 0 /\ Len(predictedData) > 0
    THEN <<ChangePercentOf(ValuesOf(historicalData, attribute),
                           ValuesOf(predictedData, attribute))>>
    ELSE <<Fin(0, 1)>>

\* MetricsChangePercent as a fraction, without the factor 100.
MetricsChangePercentFraction(historicalData, predictedData, attribute) ==
    IF Len(historicalData) > 0 /\ Len(predictedData) > 0
    THEN <<Divide(Minus(Mean(ValuesOf(predictedData, attribute)),
                        Mean(ValuesOf(historicalData, attribute))),
                  Mean(ValuesOf(historicalData, attribute)))>>
    ELSE Undefined

\* The changePercent of the metrics: undefined unless both subsets have records.
MetricsChangePercent(historicalData, predictedData, attribute) ==
    IF Len(historicalData) > 0 /\ Len(predictedData) > 0
    THEN <<ChangePercentOf(ValuesOf(historicalData, attribute),
                           ValuesOf(predictedData, attribute))>>
    ELSE Undefined

\* Math.ceil((end - start) / one day)
DateSpan(range) == CeilDiv(getTime(range.end) - getTime(range.start), HoursPerDay)

\* Metrics with the date span taken from the first and last record of the
\* Working Set instead of the date range.
MetricsSpanOfRecords(fd, attribute, range) ==
    IF Len(fd) = 0 THEN EmptyMetrics
    ELSE LET values         == ValuesOf(fd, attribute)
             historicalData == OfType(fd, "Historical")
             predictedData  == OfType(fd, "Predicted")
         IN  [average           |-> Mean(values),
              max               |-> MaxOf(values),
              min               |-> MinOf(values),
              totalRecords      |-> Len(fd),
              historicalRecords |-> Len(historicalData),
              predictedRecords  |-> Len(predictedData),
              dateSpan          |-> DateSpan([start |-> fd[1].datetime,
                                              end   |-> fd[Len(fd)].datetime]),
              changePercent     |-> MetricsChangePercent(historicalData, predictedData, attribute)]

Metrics(fd, attribute, range) ==
    IF Len(fd) = 0 THEN EmptyMetrics
    ELSE LET values         == ValuesOf(fd, attribute)
             historicalData == OfType(fd, "Historical")
             predictedData  == OfType(fd, "Predicted")
         IN  [average           |-> Mean(values),
              max               |-> MaxOf(values),
              min               |-> MinOf(values),
              totalRecords      |-> Len(fd),
              historicalRecords |-> Len(historicalData),
              predictedRecords  |-> Len(predictedData),
              dateSpan          |-> DateSpan(range),
              changePercent     |-> MetricsChangePercent(historicalData, predictedData, attribute)]

-----------------------------------------------------------------------------
(* generateInsights                                                        *)

Insight(type, icon, wording, number) ==
    [type |-> type, icon |-> icon, message |-> [text |-> wording, number |-> number]]

\* generateInsightsArrays with the outlier rule sorting the argument itself.
generateInsightsArraysInPlace(argData, attribute) ==
    LET Has(d)    == HasAttribute(d, attribute)
        validData == SelectSeq(argData, Has)
        keys      == [i \in 1..Len(argData) |->
                        IF Has(argData[i]) THEN ValueOf(argData[i], attribute) ELSE 0]
        sorted    == SortByKey(argData, keys)
    IN  [data |-> sorted, validData |-> validData,
         values |-> SortNumbers(ValuesOf(validData, attribute))]

\* The arrays generateInsights holds when it returns: `data` is the argument,
\* validData = data.filter(...) and values = validData.map(...) are new
\* arrays, and values.sort(...) of the outlier rule sorts `values` in place.
generateInsightsArrays(argData, attribute) ==
    LET Has(d)    == HasAttribute(d, attribute)
        validData == SelectSeq(argData, Has)
        values    == ValuesOf(validData, attribute)
    IN  [data |-> argData, validData |-> validData,
         values |-> SortNumbers(values)]

\* DeltaInsight with the thresholds taken inclusively (>= 10, <= -10).
DeltaInsightInclusive(validData, attribute, filter) ==
    LET historicalData == OfType(validData, "Historical")
        predictedData  == OfType(validData, "Predicted")
        changePercent  == ChangePercentOf(ValuesOf(historicalData, attribute),
                                          ValuesOf(predictedData, attribute))
    IN  IF filter = "Both" /\ Len(historicalData) > 0 /\ Len(predictedData) > 0
        THEN IF Greater(changePercent, 10) \/ changePercent = Fin(10, 1)
             THEN <<Insight("warning", "warning-sign", "is projected to increase by",
                            <<toFixed1(changePercent)>>)>>
             ELSE IF Less(changePercent, -10) \/ changePercent = Fin(-10, 1)
             THEN <<Insight("success", "check-mark", "projected decrease of",
                            <<toFixed1(IF IsFinite(changePercent)
                                       THEN Fin(Abs(changePercent.n), changePercent.d)
                                       ELSE Infinity(1))>>)>>
             ELSE <<Insight("info", "information",
                            IF Greater(changePercent, 0)
                            THEN "remains stable with minor fluctuations (+"
                            ELSE "remains stable with minor fluctuations (",
                            <<toFixed1(changePercent)>>)>>
        ELSE <<>>

\* Rule 1: historical vs predicted
DeltaInsight(validData, attribute, filter) ==
    LET historicalData == OfType(validData, "Historical")
        predictedData  == OfType(validData, "Predicted")
        changePercent  == ChangePercentOf(ValuesOf(historicalData, attribute),
                                          ValuesOf(predictedData, attribute))
    IN  IF filter = "Both" /\ Len(historicalData) > 0 /\ Len(predictedData) > 0
        THEN IF Greater(changePercent, 10)
             THEN <<Insight("warning", "warning-sign", "is projected to increase by",
                            <<toFixed1(changePercent)>>)>>
             ELSE IF Less(changePercent, -10)
             THEN <<Insight("success", "check-mark", "projected decrease of",
                            <<toFixed1(IF IsFinite(changePercent)
                                       THEN Fin(Abs(changePercent.n), changePercent.d)
                                       ELSE Infinity(1))>>)>>
             ELSE <<Insight("info", "information",
                            IF Greater(changePercent, 0)
                            THEN "remains stable with minor fluctuations (+"
                            ELSE "remains stable with minor fluctuations (",
                            <<toFixed1(changePercent)>>)>>
        ELSE <<>>

\* slope = (n * sumXY - sumX * sumY) / (n * sumXX - sumX * sumX) over the
\* time points 0 .. n-1
Slope(values) ==
    LET n     == Len(values)
        sumX  == SumSeq([i \in 1..n |-> i - 1])
        sumY  == SumSeq(values)
        sumXY == SumSeq([i \in 1..n |-> (i - 1) * values[i]])
        sumXX == SumSeq([i \in 1..n |-> (i - 1) * (i - 1)])
    IN  Divide(Fin(n * sumXY - sumX * sumY, 1), Fin(n * sumXX - sumX * sumX, 1))

\* AbsAboveHundredth testing Math.abs(x) > 0 instead.
AbsAboveZero(x) ==
    CASE x.k = "fin" -> x.n # 0
      [] x.k = "inf" -> TRUE
      [] OTHER       -> FALSE

\* Math.abs(x) > 0.01
AbsAboveHundredth(x) ==
    CASE x.k = "fin" -> 100 * Abs(x.n) > x.d
      [] x.k = "inf" -> TRUE
      [] OTHER       -> FALSE

\* TrendInsight that also analyses a single record (length > 0).
TrendInsightOfAny(validData, attribute) ==
    LET slope == Slope(ValuesOf(validData, attribute))
    IN  IF Len(validData) > 0
        THEN IF AbsAboveHundredth(slope)
             THEN IF Greater(slope, 0)
                  THEN <<Insight("info", "chart-up", "shows an upward trend", <<>>)>>
                  ELSE <<Insight("info", "chart-down", "shows a downward trend", <<>>)>>
             ELSE <<Insight("info", "arrow-right", "shows a stable trend", <<>>)>>
        ELSE <<>>

\* Rule 2: trend
TrendInsight(validData, attribute) ==
    LET slope == Slope(ValuesOf(validData, attribute))
    IN  IF Len(validData) > 1
        THEN IF AbsAboveHundredth(slope)
             THEN IF Greater(slope, 0)
                  THEN <<Insight("info", "chart-up", "shows an upward trend", <<>>)>>
                  ELSE <<Insight("info", "chart-down", "shows a downward trend", <<>>)>>
             ELSE <<Insight("info", "arrow-right", "shows a stable trend", <<>>)>>
        ELSE <<>>

\* Variance dividing by n - 1 (the sample variance; 0 for a single value).
VarianceSample(values) ==
    LET n  == Len(values)
        s  == SumSeq(values)
        sq == SumSeq([i \in 1..n |-> values[i] * values[i]])
    IN  IF n = 1 THEN Fin(0, 1) ELSE Fin(n * sq - s * s, n * (n - 1))

\* variance = sum of (val - mean)^2 / n, which is (n * sum v^2 - (sum v)^2) / n^2
Variance(values) ==
    LET n  == Len(values)
        s  == SumSeq(values)
        sq == SumSeq([i \in 1..n |-> values[i] * values[i]])
    IN  Fin(n * sq - s * s, n * n)

\* (Math.sqrt(variance) / mean) * 100.  A finite result is the surd
\* sign * sqrt(sq): sq is the square of the result, sign the sign of the mean.
Surd(sign, sq) == [k |-> "surd", n |-> sign, d |-> 1, sq |-> sq]

CoefficientOfVariation(values) ==
    LET mean     == Mean(values)
        variance == Variance(values)
    IN  IF mean.n = 0
        THEN IF variance.n = 0
             THEN [k |-> "nan", n |-> 0, d |-> 1, sq |-> Fin(0, 1)]
             ELSE [k |-> "inf", n |-> 1, d |-> 1, sq |-> Fin(0, 1)]
        ELSE Surd(Sign(mean.n),
                  Fin(variance.n * mean.d * mean.d * 10000,
                      variance.d * mean.n * mean.n))

\* cv > c and cv < c for an integer c > 0
SurdGreater(cv, c) ==
    CASE cv.k = "surd" -> cv.n > 0 /\ cv.sq.n > c * c * cv.sq.d
      [] cv.k = "inf"  -> cv.n > 0
      [] OTHER         -> FALSE

SurdLess(cv, c) ==
    CASE cv.k = "surd" -> cv.n < 0 \/ cv.sq.n < c * c * cv.sq.d
      [] cv.k = "inf"  -> cv.n < 0
      [] OTHER         -> FALSE

\* Math.floor(Math.sqrt(x)) by Newton's iteration from above
RECURSIVE NewtonSqrt(_, _)
NewtonSqrt(x, r) ==
    IF r * r <= x THEN r ELSE NewtonSqrt(x, (r + x \div r) \div 2)

IntSqrt(x) == IF x = 0 THEN 0 ELSE NewtonSqrt(x, IF x > 46340 THEN 46340 ELSE x)

\* cv.toFixed(1): the tenths of sqrt(sq) are floor(sqrt(100 * sq) + 1/2)
SurdToFixed1(cv) ==
    CASE cv.k = "nan" -> FixedText("NaN", FALSE, 0)
      [] cv.k = "inf" -> FixedText("Infinity", cv.n < 0, 0)
      [] OTHER        -> FixedText("decimal", cv.n < 0 /\ cv.sq.n > 0,
                                   (IntSqrt((400 * cv.sq.n) \div cv.sq.d) + 1) \div 2)

\* Rule 3: variability
VariabilityInsight(validData, attribute) ==
    LET coefficientOfVariation == CoefficientOfVariation(ValuesOf(validData, attribute))
        shown == <<SurdToFixed1(coefficientOfVariation)>>
    IN  IF SurdGreater(coefficientOfVariation, 20)
        THEN <<Insight("warning", "bar-chart", "High variability detected", shown)>>
        ELSE IF SurdLess(coefficientOfVariation, 10)
        THEN <<Insight("success", "bar-chart", "Low variability", shown)>>
        ELSE <<Insight("info", "bar-chart", "Moderate variability", shown)>>

\* OutlierCount that also counts the values lying on a bound.
OutlierCountInclusive(sorted) ==
    LET n   == Len(sorted)
        q1  == sorted[((n * 25) \div 100) + 1]
        q3  == sorted[((n * 75) \div 100) + 1]
        iqr == q3 - q1
    IN  Cardinality({i \in 1..n : \/ 2 * sorted[i] <= 2 * q1 - 3 * iqr
                                  \/ 2 * sorted[i] >= 2 * q3 + 3 * iqr})

\* Rule 4: outliers, over the sorted `values`.  v < q1 - 1.5 * iqr and
\* v > q3 + 1.5 * iqr are compared after doubling both sides.
OutlierCount(sorted) ==
    LET n   == Len(sorted)
        q1  == sorted[((n * 25) \div 100) + 1]
        q3  == sorted[((n * 75) \div 100) + 1]
        iqr == q3 - q1
    IN  Cardinality({i \in 1..n : \/ 2 * sorted[i] < 2 * q1 - 3 * iqr
                                  \/ 2 * sorted[i] > 2 * q3 + 3 * iqr})

OutlierInsight(sorted) ==
    IF OutlierCount(sorted) > 0
    THEN <<Insight("warning", "target", "outlier value(s) detected",
                   <<FixedText("integer", FALSE, OutlierCount(sorted))>>)>>
    ELSE <<>>

\* PushOrder with the variability insight pushed before the trend insight.
PushOrderVariabilityFirst(delta, trend, variability, outlier) ==
    delta \o variability \o trend \o outlier

\* The order of the insights.push calls.
PushOrder(delta, trend, variability, outlier) ==
    delta \o trend \o variability \o outlier

generateInsights(argData, attribute, filter) ==
    LET arrays == generateInsightsArrays(argData, attribute)
    IN  IF Len(argData) = 0 THEN <<>>
        ELSE IF Len(arrays.validData) = 0 THEN <<>>
        ELSE PushOrder(DeltaInsight(arrays.validData, attribute, filter),
                       TrendInsight(arrays.validData, attribute),
                       VariabilityInsight(arrays.validData, attribute),
                       OutlierInsight(arrays.values))

-----------------------------------------------------------------------------
(* TimeSeriesChart and DistributionCharts                                  *)

\* The filter both chart components apply to their `data` prop.
ChartFilter(argData, attribute, filter) ==
    LET Keep(d) == (filter = "Both" \/ d.dataType = filter) /\ HasAttribute(d, attribute)
    IN  SelectSeq(argData, Keep)

ChartPoint(d, attribute) ==
    [datetime |-> getTime(d.datetime), value |-> ValueOf(d, attribute),
     dataType |-> d.dataType]

\* The arrays of TimeSeriesChart: chartData is data.filter().filter().map()
\* sorted in place; `data` is the prop.
TimeSeriesChartArrays(argData, attribute, filter) ==
    LET kept   == ChartFilter(argData, attribute, filter)
        points == [i \in 1..Len(kept) |-> ChartPoint(kept[i], attribute)]
    IN  [data      |-> argData,
         chartData |-> SortByKey(points, [i \in 1..Len(points) |-> points[i].datetime])]

\* The arrays of DistributionCharts: filteredData is a filtered copy of the
\* prop, historicalValues and predictedValues are filter().map() copies that
\* createBoxPlotData sorts in place.
DistributionChartsArrays(argData, attribute, filter) ==
    LET kept == ChartFilter(argData, attribute, filter)
    IN  [data             |-> argData,
         filteredData     |-> kept,
         historicalValues |-> SortNumbers(ValuesOf(OfType(kept, "Historical"), attribute)),
         predictedValues  |-> SortNumbers(ValuesOf(OfType(kept, "Predicted"), attribute))]

MaxBins == 20

\* binCount = Math.min(20, Math.ceil(Math.sqrt(values.length)))
BinCount(n) == IF CeilSqrt(n) < MaxBins THEN CeilSqrt(n) ELSE MaxBins

\* binWidth = (max - min) / binCount
BinWidth(values) == Divide(Fin(MaxOf(values) - MinOf(values), 1), Fin(BinCount(Len(values)), 1))

\* Math.min(Math.floor((value - min) / binWidth), binCount - 1): a number, NaN
\* when the quotient is 0 / 0.  The quotient is taken exactly.
BinIndex(value, values) ==
    LET quotient == Divide(Fin(value - MinOf(values), 1), BinWidth(values))
        last     == BinCount(Len(values)) - 1
    IN  IF IsFinite(quotient)
        THEN Fin(IF Floor(quotient) < last THEN Floor(quotient) ELSE last, 1)
        ELSE NaN

\* `if (binIndex >= 0 && binIndex < bins.length)`: the value is counted in
\* bin i (0-based) when its index passes the test and equals i.
CountedIn(value, values, i) ==
    LET binIndex == BinIndex(value, values)
    IN  /\ ~Less(binIndex, 0) /\ binIndex.k # "nan"
        /\ Less(binIndex, BinCount(Len(values)))
        /\ binIndex = Fin(i, 1)

Bin(kept, attribute, i) ==
    LET values   == ValuesOf(kept, attribute)
        min      == Fin(MinOf(values), 1)
        binWidth == BinWidth(values)
        edge(j)  == Fin(min.n * binWidth.d + j * binWidth.n, binWidth.d)
        hits(t)  == Cardinality({r \in 1..Len(kept) :
                        kept[r].dataType \in t /\ CountedIn(values[r], values, i)})
    IN  [range      |-> <<toFixed1(edge(i)), toFixed1(edge(i + 1))>>,
         midpoint   |-> Fin(2 * min.n * binWidth.d + (2 * i + 1) * binWidth.n,
                            2 * binWidth.d),
         Historical |-> hits({"Historical"}),
         Predicted  |-> hits({"Predicted"}),
         total      |-> hits(DataType)]

createHistogramData(kept, attribute) ==
    IF Len(kept) = 0 THEN <<>>
    ELSE [b \in 1..BinCount(Len(kept)) |-> Bin(kept, attribute, b - 1)]

\* getQuartiles with the indices taken as floor((n - 1) * p).
getQuartilesExclusiveRank(name, values) ==
    LET n == Len(values)
    IN  IF n = 0 THEN <<>>
        ELSE <<[name   |-> name,
                min    |-> values[1],
                q1     |-> values[(((n - 1) * 25) \div 100) + 1],
                median |-> values[(((n - 1) * 50) \div 100) + 1],
                q3     |-> values[(((n - 1) * 75) \div 100) + 1],
                max    |-> values[n],
                mean   |-> Mean(values)]>>

\* getQuartiles over values sorted ascending: <<>> is null.
getQuartiles(name, values) ==
    LET n == Len(values)
    IN  IF n = 0 THEN <<>>
        ELSE <<[name   |-> name,
                min    |-> values[1],
                q1     |-> values[((n * 25) \div 100) + 1],
                median |-> values[((n * 50) \div 100) + 1],
                q3     |-> values[((n * 75) \div 100) + 1],
                max    |-> values[n],
                mean   |-> Mean(values)]>>

createBoxPlotData(arrays, filter) ==
    (IF filter \in {"Both", "Historical"}
     THEN getQuartiles("Historical", arrays.historicalValues) ELSE <<>>)
    \o
    (IF filter \in {"Both", "Predicted"}
     THEN getQuartiles("Predicted", arrays.predictedValues) ELSE <<>>)

-----------------------------------------------------------------------------
(* One render of App: the memos in the order the component body computes   *)
(* them, then the children.  Every consumer receives the array the         *)
(* previous one was handed, as that one left it.                           *)

Render(series, attribute, filter, range) ==
    LET app    == FilterDataArrays(series, attribute, filter, range)
        fd0    == app.filteredData
        m      == Metrics(fd0, attribute, range)
        gi     == generateInsights(fd0, attribute, filter)
        fd1    == generateInsightsArrays(fd0, attribute).data
        fd2    == TimeSeriesChartArrays(fd1, attribute, filter).data
        dc     == DistributionChartsArrays(fd2, attribute, filter)
    IN  [data          |-> app.data,
         filteredData  |-> dc.data,
         metrics       |-> m,
         insights      |-> gi,
         histogramData |-> createHistogramData(dc.filteredData, attribute),
         boxPlotData   |-> createBoxPlotData(dc, filter)]

-----------------------------------------------------------------------------
(* Inputs                                                                  *)

Sources == DataType

\* Instants the datetime column of a loaded row may hold.
RowTimes == {Now - HoursPerDay}

Row(dt, d, ts, si, hr) ==
    [datetime |-> dt, date |-> d, timestamp |-> ts, StressIndex |-> si,
     HeartRate |-> hr, SystolicBP |-> Missing, DiastolicBP |-> Missing]

\* Rows of the two CSV files of the application run: a row without a
\* datetime column whose StressIndex is the number 0, and a row with a date
\* in the datetime column whose StressIndex is a text.
LoadRows ==
    {Row(Missing, Missing, Missing, NumCell(0), Missing)}
    \cup {Row(DateText(t), Missing, Missing, TextCell, Missing) : t \in RowTimes}

MaxRawRows == 2

SeqsUpTo(S, n) == UNION {[1..m -> S] : m \in 0..n}

LoadBatches == SeqsUpTo(LoadRows, MaxRawRows)

\* The days the two date inputs of the sidebar are set to (midnight of a day).
DateInputs == {DateOf(Now - HoursPerDay), DateOf(Now), DateOf(Now + HoursPerDay)}

\* availableAttributes: the options of the attribute selector
availableAttributes(series) ==
    {a \in AttributeKey : \E i \in 1..Len(series) : series[i][a] # Undefined}

\* new Date(Math.min(...dates)) and new Date(Math.max(...dates))
MinDate(series) == DateOf(MinOf([i \in 1..Len(series) |-> getTime(series[i].datetime)]))

MaxDate(series) == DateOf(MaxOf([i \in 1..Len(series) |-> getTime(series[i].datetime)]))

-----------------------------------------------------------------------------
(* The application run: initial load, then filter changes                  *)

Null == <<>>

Rendered(r) ==
    /\ data' = r.data
    /\ filteredData' = r.filteredData
    /\ metrics' = r.metrics
    /\ insights' = r.insights
    /\ histogramData' = r.histogramData
    /\ boxPlotData' = r.boxPlotData

\* useState initial values and the first render, with the effect started:
\* loadData has called setLoading(true) and loadCSVData has issued both fetches.
Init ==
    /\ pc = "fetch"
    /\ response = [s \in Sources |-> "pending"]
    /\ text = [s \in Sources |-> "idle"]
    /\ parse = [s \in Sources |-> "idle"]
    /\ rawRows = [s \in Sources |-> <<>>]
    /\ source = "none"
    /\ data = <<>>
    /\ loading = TRUE
    /\ error = Null
    /\ selectedAttribute = "StressIndex"
    /\ dataTypeFilter = "Both"
    /\ dateRange = [start |-> DateOf(Now), end |-> DateOf(Now)]
    /\ filteredData = <<>>
    /\ metrics = EmptyMetrics
    /\ insights = <<>>
    /\ histogramData = <<>>
    /\ boxPlotData = <<>>

viewVars == <<data, selectedAttribute, dataTypeFilter, dateRange, filteredData,
              metrics, insights, histogramData, boxPlotData>>

Other(s) == CHOOSE o \in Sources : o # s

\* loadData after `await loadCSVData()`: setData, setDateRange when the Series
\* has records, setLoading(false), and the render that follows.
LoadDataContinues(csvData, from) ==
    LET range == IF Len(csvData) > 0
                 THEN [start |-> MinDate(csvData), end |-> MaxDate(csvData)]
                 ELSE dateRange
    IN  /\ pc' = "done"
        /\ source' = from
        /\ loading' = FALSE
        /\ dateRange' = range
        /\ Rendered(Render(csvData, selectedAttribute, dataTypeFilter, range))
        /\ UNCHANGED <<error, selectedAttribute, dataTypeFilter>>

\* loadCSVData returns generateSampleData(): the `if` was skipped or the catch
\* ran.  The continuations up to the render run as microtasks, before any
\* other network event is delivered.
ReturnSample ==
    \E rnd \in RandomSequences :
        LoadDataContinues(generateSampleData(rnd), "sample")

Waiting == UNCHANGED <<pc, source, loading, error>> /\ UNCHANGED viewVars

\* A fetch answers (ok or not) while the other fetch is still pending.
FetchAnswersFirst(s, outcome) ==
    /\ pc = "fetch"
    /\ response[s] = "pending" /\ response[Other(s)] = "pending"
    /\ response' = [response EXCEPT ![s] = outcome]
    /\ UNCHANGED <<text, parse, rawRows>>
    /\ Waiting

\* The second fetch answers and both responses are ok: Promise.all resolves
\* and the two text() reads start.
FetchAnswersLastOk(s) ==
    /\ pc = "fetch"
    /\ response[s] = "pending" /\ response[Other(s)] = "ok"
    /\ response' = [response EXCEPT ![s] = "ok"]
    /\ pc' = "text"
    /\ text' = [t \in Sources |-> "pending"]
    /\ UNCHANGED <<parse, rawRows, source, loading, error>>
    /\ UNCHANGED viewVars

\* The second fetch answers and a response is not ok: the `if` is skipped.
FetchAnswersLastNotOk(s, outcome) ==
    /\ pc = "fetch"
    /\ response[s] = "pending" /\ response[Other(s)] \in {"ok", "notok"}
    /\ outcome = "notok" \/ response[Other(s)] = "notok"
    /\ response' = [response EXCEPT ![s] = outcome]
    /\ UNCHANGED <<text, parse, rawRows>>
    /\ ReturnSample

\* A fetch throws: Promise.all rejects at once and the catch runs.
FetchRejects(s) ==
    /\ pc = "fetch"
    /\ response[s] = "pending"
    /\ response' = [response EXCEPT ![s] = "rejected"]
    /\ UNCHANGED <<text, parse, rawRows>>
    /\ ReturnSample

TextResolvesFirst(s) ==
    /\ pc = "text"
    /\ text[s] = "pending" /\ text[Other(s)] = "pending"
    /\ text' = [text EXCEPT ![s] = "resolved"]
    /\ UNCHANGED <<response, parse, rawRows>>
    /\ Waiting

\* Both texts are read: the two parseCSV calls start.
TextResolvesLast(s) ==
    /\ pc = "text"
    /\ text[s] = "pending" /\ text[Other(s)] = "resolved"
    /\ text' = [text EXCEPT ![s] = "resolved"]
    /\ pc' = "parse"
    /\ parse' = [t \in Sources |-> "pending"]
    /\ UNCHANGED <<response, rawRows, source, loading, error>>
    /\ UNCHANGED viewVars

TextRejects(s) ==
    /\ pc = "text"
    /\ text[s] = "pending"
    /\ text' = [text EXCEPT ![s] = "rejected"]
    /\ UNCHANGED <<response, parse, rawRows>>
    /\ ReturnSample

\* ParseResolvesFirst that does not wait for the other parseCSV: the Series is
\* built from the rows of the file that was parsed first.
ParseResolvesFirstBuilds(s) ==
    /\ pc = "parse"
    /\ parse[s] = "pending" /\ parse[Other(s)] = "pending"
    /\ parse' = [parse EXCEPT ![s] = "resolved"]
    /\ UNCHANGED <<response, text>>
    /\ \E rows \in LoadBatches :
          /\ rawRows' = [rawRows EXCEPT ![s] = rows]
          /\ LoadDataContinues(processPatientData(rows, s), "csv")

\* parseCSV resolves (results.errors is empty) while the other is pending.
ParseResolvesFirst(s) ==
    /\ pc = "parse"
    /\ parse[s] = "pending" /\ parse[Other(s)] = "pending"
    /\ parse' = [parse EXCEPT ![s] = "resolved"]
    /\ UNCHANGED <<response, text, rawRows>>
    /\ Waiting

\* The second parseCSV resolves: [historicalRaw, predictedRaw] are bound to the
\* rows of the two files and loadCSVData returns the merged, sorted Series.
ParseResolvesLast(s, historicalRaw, predictedRaw) ==
    /\ pc = "parse"
    /\ parse[s] = "pending" /\ parse[Other(s)] = "resolved"
    /\ parse' = [parse EXCEPT ![s] = "resolved"]
    /\ rawRows' = [t \in Sources |->
                      IF t = "Historical" THEN historicalRaw ELSE predictedRaw]
    /\ UNCHANGED <<response, text>>
    /\ LoadDataContinues(MergeSeries(historicalRaw, predictedRaw), "csv")

\* parseCSV rejects with the row errors: the catch runs.
ParseRejects(s) ==
    /\ pc = "parse"
    /\ parse[s] = "pending"
    /\ parse' = [parse EXCEPT ![s] = "rejected"]
    /\ UNCHANGED <<response, text, rawRows>>
    /\ ReturnSample

\* The dashboard is on screen: not loading and no error.
Shown == pc = "done" /\ ~loading /\ error = Null

Rerender(attribute, filter, range) ==
    /\ selectedAttribute' = attribute
    /\ dataTypeFilter' = filter
    /\ dateRange' = range
    /\ Rendered(Render(data, attribute, filter, range))
    /\ UNCHANGED loadVars

\* onAttributeChange = setSelectedAttribute, from an option of the selector
SetSelectedAttribute(attribute) ==
    /\ Shown
    /\ attribute \in availableAttributes(data)
    /\ Rerender(attribute, dataTypeFilter, dateRange)

\* onDataTypeChange = setDataTypeFilter
SetDataTypeFilter(filter) ==
    /\ Shown
    /\ Rerender(selectedAttribute, filter, dateRange)

\* handleStartDateChange
SetStartDate(newStart) ==
    /\ Shown
    /\ Rerender(selectedAttribute, dataTypeFilter, [start |-> newStart, end |-> dateRange.end])

\* handleEndDateChange
SetEndDate(newEnd) ==
    /\ Shown
    /\ Rerender(selectedAttribute, dataTypeFilter, [start |-> dateRange.start, end |-> newEnd])

LoadNext ==
    \/ \E s \in Sources, o \in {"ok", "notok"} : FetchAnswersFirst(s, o)
    \/ \E s \in Sources : FetchAnswersLastOk(s)
    \/ \E s \in Sources, o \in {"ok", "notok"} : FetchAnswersLastNotOk(s, o)
    \/ \E s \in Sources : FetchRejects(s)
    \/ \E s \in Sources : TextResolvesFirst(s)
    \/ \E s \in Sources : TextResolvesLast(s)
    \/ \E s \in Sources : TextRejects(s)
    \/ \E s \in Sources : ParseResolvesFirst(s)
    \/ \E s \in Sources, h \in LoadBatches, p \in LoadBatches : ParseResolvesLast(s, h, p)
    \/ \E s \in Sources : ParseRejects(s)

Next ==
    \/ LoadNext
    \/ \E a \in AttributeKey : SetSelectedAttribute(a)
    \/ \E f \in DataTypeFilter : SetDataTypeFilter(f)
    \/ \E d \in DateInputs : SetStartDate(d)
    \/ \E d \in DateInputs : SetEndDate(d)

Spec == Init /\ [][Next]_vars

-----------------------------------------------------------------------------
(* The load alone: loadCSVData and the state updates of loadData, with the *)
(* memos of the render that follows left as they are.                      *)

\* setData(csvData), setDateRange(...) when the Series has records, and
\* setLoading(false) of the finally block.
LoadDataSets(csvData, from) ==
    /\ pc' = "done"
    /\ source' = from
    /\ loading' = FALSE
    /\ data' = csvData
    /\ dateRange' = IF Len(csvData) > 0
                    THEN [start |-> MinDate(csvData), end |-> MaxDate(csvData)]
                    ELSE dateRange
    /\ UNCHANGED <<error, selectedAttribute, dataTypeFilter, filteredData, metrics,
                   insights, histogramData, boxPlotData>>

\* SampleReturned without the try / catch of loadCSVData: the rejection
\* reaches the catch of loadData, which sets the error, and its finally block.
SampleReturnedRethrows ==
    /\ pc' = "done"
    /\ source' = "none"
    /\ loading' = FALSE
    /\ error' = <<"Failed to load data">>
    /\ UNCHANGED viewVars

\* loadCSVData returns generateSampleData()
SampleReturned ==
    \E rnd \in RandomSequences : LoadDataSets(generateSampleData(rnd), "sample")

LoadFetchAnswersLastNotOk(s, outcome) ==
    /\ pc = "fetch"
    /\ response[s] = "pending" /\ response[Other(s)] \in {"ok", "notok"}
    /\ outcome = "notok" \/ response[Other(s)] = "notok"
    /\ response' = [response EXCEPT ![s] = outcome]
    /\ UNCHANGED <<text, parse, rawRows>>
    /\ SampleReturned

LoadFetchRejects(s) ==
    /\ pc = "fetch"
    /\ response[s] = "pending"
    /\ response' = [response EXCEPT ![s] = "rejected"]
    /\ UNCHANGED <<text, parse, rawRows>>
    /\ SampleReturned

LoadTextRejects(s) ==
    /\ pc = "text"
    /\ text[s] = "pending"
    /\ text' = [text EXCEPT ![s] = "rejected"]
    /\ UNCHANGED <<response, parse, rawRows>>
    /\ SampleReturned

LoadParseResolvesLast(s, historicalRaw, predictedRaw) ==
    /\ pc = "parse"
    /\ parse[s] = "pending" /\ parse[Other(s)] = "resolved"
    /\ parse' = [parse EXCEPT ![s] = "resolved"]
    /\ rawRows' = [t \in Sources |->
                      IF t = "Historical" THEN historicalRaw ELSE predictedRaw]
    /\ UNCHANGED <<response, text>>
    /\ LoadDataSets(MergeSeries(historicalRaw, predictedRaw), "csv")

LoadParseRejects(s) ==
    /\ pc = "parse"
    /\ parse[s] = "pending"
    /\ parse' = [parse EXCEPT ![s] = "rejected"]
    /\ UNCHANGED <<response, text, rawRows>>
    /\ SampleReturned

\* Rows of the two CSV files of the load alone.
LiveRows ==
    {Row(dt, Missing, Missing, si, Missing) :
        dt \in {Missing, DateText(Now - HoursPerDay)}, si \in {TextCell, NumCell(0)}}

MaxLiveRows == 2

LiveBatches == SeqsUpTo(LiveRows, MaxLiveRows)

NextLive ==
    \/ \E s \in Sources, o \in {"ok", "notok"} : FetchAnswersFirst(s, o)
    \/ \E s \in Sources : FetchAnswersLastOk(s)
    \/ \E s \in Sources, o \in {"ok", "notok"} : LoadFetchAnswersLastNotOk(s, o)
    \/ \E s \in Sources : LoadFetchRejects(s)
    \/ \E s \in Sources : TextResolvesFirst(s)
    \/ \E s \in Sources : TextResolvesLast(s)
    \/ \E s \in Sources : LoadTextRejects(s)
    \/ \E s \in Sources : ParseResolvesFirst(s)
    \/ \E s \in Sources, h \in LiveBatches, p \in LiveBatches :
          LoadParseResolvesLast(s, h, p)
    \/ \E s \in Sources : LoadParseRejects(s)

\* The load makes progress: a fetch, a text() read and a parseCSV call each
\* settle (resolve or reject) once started.
SpecLive == Init /\ [][NextLive]_vars /\ WF_vars(NextLive)

-----------------------------------------------------------------------------
(* The dashboard after a load from two CSV files without a datetime column *)
(* (every datetime is synthesized), under attribute and source changes.    *)

ViewValues == {-1, 0, 1}

ViewRows ==
    {Row(Missing, Missing, Missing, si, NumCell(70)) :
        si \in {Missing} \cup {NumCell(v) : v \in ViewValues}}

MaxViewRows == 4

ViewBatches ==
    {hp \in SeqsUpTo(ViewRows, MaxViewRows) \X SeqsUpTo(ViewRows, MaxViewRows) :
        Len(hp[1]) + Len(hp[2]) <= MaxViewRows}

\* The load succeeds on both files, then the attribute and the source filter
\* change.
NextView ==
    \/ \E s \in Sources : FetchAnswersFirst(s, "ok")
    \/ \E s \in Sources : FetchAnswersLastOk(s)
    \/ \E s \in Sources : TextResolvesFirst(s)
    \/ \E s \in Sources : TextResolvesLast(s)
    \/ \E s \in Sources : ParseResolvesFirst(s)
    \/ \E s \in Sources, hp \in ViewBatches : ParseResolvesLast(s, hp[1], hp[2])
    \/ \E a \in AttributeKey : SetSelectedAttribute(a)
    \/ \E f \in DataTypeFilter : SetDataTypeFilter(f)

SpecView == Init /\ [][NextView]_vars

-----------------------------------------------------------------------------
(* The dashboard after a load from two CSV files whose rows hold only a    *)
(* StressIndex: the statistics and the insight rules on larger values.     *)

StatsRow(v) == Row(Missing, Missing, Missing, NumCell(v), Missing)

StatsRowsOf(values) == [i \in 1..Len(values) |-> StatsRow(values[i])]

StatsValues == {8, 9, 11, 12}

MaxStatsRows == 4

\* The StressIndex columns of the two files: every pair of at most
\* MaxStatsRows values in all, and the files of the worked examples.
StatsColumns ==
    {hp \in SeqsUpTo(StatsValues, MaxStatsRows) \X SeqsUpTo(StatsValues, MaxStatsRows) :
        Len(hp[1]) + Len(hp[2]) <= MaxStatsRows}
    \cup {<<(<<30, 10, 40, 20>>), (<<20>>)>>,
          <<(<<40, 50, 60>>), (<<70, 80, 90>>)>>,
          <<(<<10, 10, 10, 10>>), (<<>>)>>,
          <<(<<10, 10, 10, 10, 10>>), (<<11, 10, 10, 10, 10>>)>>,
          <<(<<7, 10, 11, 12>>), (<<>>)>>,
          <<(<<6, 10>>), (<<11, 12>>)>>,
          <<(<<10, 10, 12>>), (<<12, 15>>)>>,
          <<(<<10, 10, 12>>), (<<12, 16>>)>>,
          <<(<<8, 10, 10>>), (<<10, 12>>)>>}

NextStats ==
    \/ \E s \in Sources : FetchAnswersFirst(s, "ok")
    \/ \E s \in Sources : FetchAnswersLastOk(s)
    \/ \E s \in Sources : TextResolvesFirst(s)
    \/ \E s \in Sources : TextResolvesLast(s)
    \/ \E s \in Sources : ParseResolvesFirst(s)
    \/ \E s \in Sources, hp \in StatsColumns :
          ParseResolvesLast(s, StatsRowsOf(hp[1]), StatsRowsOf(hp[2]))
    \/ \E f \in DataTypeFilter : SetDataTypeFilter(f)

SpecStats == Init /\ [][NextStats]_vars

-----------------------------------------------------------------------------
(* processPatientData as a function of one batch of rows                   *)

RowDatetimeCells ==
    {Missing, NullCell, EmptyCell, NumCell(0), TextCell, DateText(Now - HoursPerDay)}

RowDateCells == {Missing, TextCell, DateText(Now - 2 * HoursPerDay)}

RowTimestampCells == {Missing, DateText(Now - 3 * HoursPerDay)}

RowAttributeCells == {Missing, NullCell, TextCell, NumCell(0), NumCell(1)}

AnyRows ==
    {Row(dt, d, ts, NumCell(1), Missing) :
        dt \in RowDatetimeCells, d \in RowDateCells, ts \in RowTimestampCells}
    \cup {Row(Missing, Missing, Missing, si, hr) :
        si \in RowAttributeCells, hr \in {Missing, NumCell(0)}}
    \cup {[Row(Missing, Missing, Missing, Missing, Missing)
              EXCEPT !.SystolicBP = sbp, !.DiastolicBP = dbp] :
        sbp \in RowAttributeCells, dbp \in {Missing, TextCell, NumCell(0)}}

MaxBatch == 2

RowBatches == SeqsUpTo(AnyRows, MaxBatch)

\* rawRows holds the batch of one source; nothing is processed yet.
InitRows ==
    /\ \E s \in Sources, batch \in RowBatches :
          rawRows = [t \in Sources |-> IF t = s THEN batch ELSE <<>>]
    /\ pc = "rows"
    /\ response = [s \in Sources |-> "ok"]
    /\ text = [s \in Sources |-> "resolved"]
    /\ parse = [s \in Sources |-> "resolved"]
    /\ source = "none"
    /\ data = <<>>
    /\ loading = TRUE
    /\ error = Null
    /\ selectedAttribute = "StressIndex"
    /\ dataTypeFilter = "Both"
    /\ dateRange = [start |-> DateOf(Now), end |-> DateOf(Now)]
    /\ filteredData = <<>>
    /\ metrics = EmptyMetrics
    /\ insights = <<>>
    /\ histogramData = <<>>
    /\ boxPlotData = <<>>

\* data becomes processPatientData(rawRows[s], s); source records the tag.
Normalize(s) ==
    /\ pc = "rows"
    /\ source = "none"
    /\ data' = processPatientData(rawRows[s], s)
    /\ source' = s
    /\ UNCHANGED <<pc, response, text, parse, rawRows, loading, error,
                   selectedAttribute, dataTypeFilter, dateRange, filteredData,
                   metrics, insights, histogramData, boxPlotData>>

NextRows == \E s \in Sources : Normalize(s)

SpecRows == InitRows /\ [][NextRows]_vars

-----------------------------------------------------------------------------
(* Properties                                                              *)

Values == ValuesOf(filteredData, selectedAttribute)

HistoricalValues == ValuesOf(OfType(filteredData, "Historical"), selectedAttribute)

PredictedValues == ValuesOf(OfType(filteredData, "Predicted"), selectedAttribute)

\* C1: every record processPatientData returns, for either source tag and
\* any raw row, has a datetime that is a valid instant, and every row yields
\* its record (none is rejected).  Checked under SpecRows.
C1_DatetimeAlwaysValid ==
    source \in Sources =>
        /\ Len(data) = Len(rawRows[source])
        /\ \A i \in 1..Len(data) :
              /\ data[i].datetime # NaNDate
              /\ Len(data[i].datetime) = 1
              /\ data[i].datetime[1] \in Int

\* A batch was processed in which a row's datetime column holds a text that
\* is no date, and its record carries the synthesized instant.
C1_Witness ==
    /\ source \in Sources
    /\ \E i \in 1..Len(data) :
          /\ rawRows[source][i].datetime = TextCell
          /\ data[i].datetime = DateOf(BaseDate(source) + (i - 1))

\* C2: the Series loadCSVData resolves to is sorted non-decreasing by
\* datetime for every adjacent pair, on the CSV path and on the sample-data
\* path.  Checked under Spec.
C2_SeriesSorted ==
    pc = "done" =>
        /\ source \in {"csv", "sample"}
        /\ \A i \in 1..(Len(data) - 1) :
              data[i].datetime[1] <= data[i + 1].datetime[1]

\* The CSV path finished on rows whose concatenation was out of order.
C2_Witness ==
    LET c == processPatientData(rawRows["Historical"], "Historical")
                \o processPatientData(rawRows["Predicted"], "Predicted")
    IN  /\ pc = "done" /\ source = "csv"
        /\ \E i \in 1..(Len(c) - 1) : c[i].datetime[1] > c[i + 1].datetime[1]

\* The indices of the Series that the Filter Criteria select, stated from the
\* three predicates of the claim.
C3_Selected ==
    {i \in 1..Len(data) :
        /\ dateRange.start[1] <= data[i].datetime[1]
        /\ data[i].datetime[1] <= dateRange.end[1]
        /\ data[i][selectedAttribute] # <<>>
        /\ dataTypeFilter = "Both" \/ data[i].dataType = dataTypeFilter}

\* The k-th smallest index of a set of indices.
C3_Nth(S, k) == CHOOSE i \in S : Cardinality({j \in S : j <= i}) = k

\* C3: the Working Set holds exactly the records of the Series inside the
\* inclusive date range, with the selected attribute present (0 is present)
\* and of the filtered source, in the order of the Series; an empty Series or
\* a range with start > end gives an empty Working Set.  Checked under Spec.
C3_WorkingSetExact ==
    /\ Len(filteredData) = Cardinality(C3_Selected)
    /\ \A k \in 1..Len(filteredData) : filteredData[k] = data[C3_Nth(C3_Selected, k)]
    /\ (data = <<>> \/ dateRange.start[1] > dateRange.end[1]) => filteredData = <<>>

\* The dashboard shows a Working Set that keeps a record lying exactly on the
\* end of the range with the value 0, and leaves another record out.
C3_Witness ==
    /\ Shown
    /\ Len(filteredData) < Len(data)
    /\ \E k \in 1..Len(filteredData) :
          /\ filteredData[k].datetime = dateRange.end
          /\ filteredData[k][selectedAttribute] = <<0>>

\* C4: after the load, no filter change and no call of the filter, the
\* metrics, the charts or generateInsights changes the Series, and the
\* Working Set the consumers were handed is, after they ran, still the
\* filter's output in the filter's order.  Checked under Spec.
C4_NoMutation ==
    [][/\ pc = "done" => data' = data
       /\ pc' = "done" =>
            filteredData' = FilterData(data', selectedAttribute', dataTypeFilter',
                                       dateRange')]_vars

\* The consumers ran on a Working Set whose values are not in ascending
\* order, so the sort of the outlier rule had something to reorder.
C4_Witness ==
    /\ Shown
    /\ \E i \in 1..(Len(filteredData) - 1) :
          filteredData[i][selectedAttribute][1] > filteredData[i + 1][selectedAttribute][1]

\* C5: metrics.changePercent is undefined whenever the Working Set has no
\* Historical record or no Predicted record (the empty Working Set
\* included), and otherwise it is (predictedMean - historicalMean) /
\* historicalMean * 100.  Checked under SpecView.
C5_ChangePercentUndefined ==
    LET nh == Len(HistoricalValues)
        np == Len(PredictedValues)
        sh == SumSeq(HistoricalValues)
        sp == SumSeq(PredictedValues)
        cp == metrics.changePercent
    IN  /\ (nh = 0 \/ np = 0) => cp = Undefined
        /\ (nh > 0 /\ np > 0) =>
              /\ Len(cp) = 1
              /\ sh # 0 => /\ cp[1].k = "fin"
                           /\ cp[1].n * (sh * np) = cp[1].d * 100 * (sp * nh - sh * np)

\* The Working Set has Historical records and no Predicted one.
C5_Witness ==
    /\ Shown
    /\ Len(HistoricalValues) > 0 /\ Len(PredictedValues) = 0
    /\ metrics.totalRecords > 0
    /\ metrics.changePercent = <<>>

\* The rule an insight comes from, read off its icon: 1 delta, 2 trend,
\* 3 variability, 4 outlier.
RuleOf(insight) ==
    CASE insight.icon \in {"warning-sign", "check-mark", "information"} -> 1
      [] insight.icon \in {"chart-up", "chart-down", "arrow-right"}      -> 2
      [] insight.icon = "bar-chart"                                       -> 3
      [] insight.icon = "target"                                          -> 4

\* C6: the insights are in the fixed rule order delta, trend, variability,
\* outlier: no insight of a later rule precedes one of an earlier rule.
\* Checked under SpecView.
C6_InsightOrder ==
    \A i, j \in 1..Len(insights) : i < j => RuleOf(insights[i]) < RuleOf(insights[j])

\* All four rules emitted an insight.
C6_Witness ==
    /\ Shown
    /\ Len(insights) = 4
    /\ {RuleOf(insights[i]) : i \in 1..4} = 1..4

\* C7: for an empty Working Set the insight list is empty, the metrics are
\* all 0 with changePercent undefined, and the histogram and the quartile
\* summary are empty; generateInsights also returns the empty list for
\* records none of which has the attribute.  Checked under SpecView.
C7_EmptyWorkingSet ==
    /\ (Shown /\ filteredData = <<>>) =>
          /\ insights = <<>>
          /\ metrics.average = [k |-> "fin", n |-> 0, d |-> 1]
          /\ metrics.max = 0 /\ metrics.min = 0
          /\ metrics.totalRecords = 0
          /\ metrics.historicalRecords = 0 /\ metrics.predictedRecords = 0
          /\ metrics.dateSpan = 0
          /\ metrics.changePercent = <<>>
          /\ histogramData = <<>>
          /\ boxPlotData = <<>>
    /\ \A a \in AttributeKey :
          (\A i \in 1..Len(data) : data[i][a] = <<>>) =>
              generateInsights(data, a, dataTypeFilter) = <<>>

\* A Series with records is on screen and the Working Set is empty.
C7_Witness ==
    /\ Shown
    /\ data # <<>>
    /\ filteredData = <<>>
    /\ insights = <<>>

\* The bins' totals of the histogram, summed.
RECURSIVE TotalCounted(_)
TotalCounted(bins) ==
    IF bins = <<>> THEN 0 ELSE Head(bins).total + TotalCounted(Tail(bins))

\* C8: in createHistogramData, for any non-empty Working Set, every value
\* gets a bin index in 0 .. binCount-1 with binCount = min(20, ceil(sqrt(n))),
\* the maximum lands in the last bin and the minimum in bin 0.  Checked under
\* SpecView.
C8_BinIndexInRange ==
    (Shown /\ filteredData # <<>>) =>
        LET binCount == IF CeilSqrt(Len(Values)) < 20 THEN CeilSqrt(Len(Values)) ELSE 20
        IN  /\ Len(histogramData) = binCount
            /\ \A i \in 1..Len(Values) :
                  /\ BinIndex(Values[i], Values).k = "fin"
                  /\ BinIndex(Values[i], Values).d = 1
                  /\ BinIndex(Values[i], Values).n \in 0..(binCount - 1)
            /\ BinIndex(MaxOf(Values), Values) = Fin(binCount - 1, 1)
            /\ BinIndex(MinOf(Values), Values) = Fin(0, 1)
            /\ histogramData[binCount].total >= 1
            /\ histogramData[1].total >= 1

\* C9: in createHistogramData, when all values of a non-empty Working Set
\* are equal, every value is still counted: the bin totals sum to n and one
\* bin holds all n values.  Checked under SpecView.
C9_EqualValuesCounted ==
    (Shown /\ filteredData # <<>> /\ MaxOf(Values) = MinOf(Values)) =>
        /\ TotalCounted(histogramData) = Len(Values)
        /\ \E b \in 1..Len(histogramData) : histogramData[b].total = Len(Values)

\* The variability insight of the list.
VariabilityOf(list) == list[CHOOSE i \in 1..Len(list) : list[i].icon = "bar-chart"]

\* C10: in the variability rule, when the mean of the values is 0 the
\* coefficient of variation is guarded: the insight is the moderate one or
\* a flagged one, and it is never built from a NaN or infinite CV.  Checked
\* under SpecView.
C10_ZeroMeanGuarded ==
    (Shown /\ filteredData # <<>> /\ SumSeq(Values) = 0) =>
        /\ \E i \in 1..Len(insights) : insights[i].icon = "bar-chart"
        /\ VariabilityOf(insights).type = "info"
        /\ \A t \in 1..Len(VariabilityOf(insights).message.number) :
              VariabilityOf(insights).message.number[t].k \notin {"NaN", "Infinity"}

\* The value at 0-based rank k of the ascending order of a non-empty list:
\* at most k elements are smaller and more than k are smaller or equal.
RankedValue(list, k) ==
    CHOOSE x \in {list[i] : i \in 1..Len(list)} :
        /\ Cardinality({i \in 1..Len(list) : list[i] < x}) <= k
        /\ Cardinality({i \in 1..Len(list) : list[i] <= x}) > k

\* The summary the claim gives for the values of one source.
C11_Summary(name, list) ==
    LET n == Len(list)
    IN  [name   |-> name,
         min    |-> RankedValue(list, 0),
         q1     |-> RankedValue(list, (n * 25) \div 100),
         median |-> RankedValue(list, (n * 50) \div 100),
         q3     |-> RankedValue(list, (n * 75) \div 100),
         max    |-> RankedValue(list, n - 1),
         mean   |-> [k |-> "fin", n |-> SumSeq(list) \div GCD(Abs(SumSeq(list)), n),
                     d |-> n \div GCD(Abs(SumSeq(list)), n)]]

\* C11: createBoxPlotData emits one summary per source, Historical first,
\* exactly when the source's subset of the Working Set is non-empty and the
\* filter includes the source; over the subset sorted ascending, q1, median
\* and q3 are the values at indices floor(n/4), floor(n/2) and floor(3n/4),
\* min and max the first and last, so min <= q1 <= median <= q3 <= max;
\* [10,20,30,40] gives 20, 30, 40.  Checked under SpecStats.
C11_Quartiles ==
    Shown =>
        /\ boxPlotData =
              (IF HistoricalValues # <<>> /\ dataTypeFilter \in {"Both", "Historical"}
               THEN <<C11_Summary("Historical", HistoricalValues)>> ELSE <<>>)
              \o (IF PredictedValues # <<>> /\ dataTypeFilter \in {"Both", "Predicted"}
                  THEN <<C11_Summary("Predicted", PredictedValues)>> ELSE <<>>)
        /\ \A b \in 1..Len(boxPlotData) :
              /\ boxPlotData[b].min <= boxPlotData[b].q1
              /\ boxPlotData[b].q1 <= boxPlotData[b].median
              /\ boxPlotData[b].median <= boxPlotData[b].q3
              /\ boxPlotData[b].q3 <= boxPlotData[b].max
        /\ (/\ Len(HistoricalValues) = 4
            /\ {HistoricalValues[i] : i \in 1..4} = {10, 20, 30, 40}
            /\ dataTypeFilter \in {"Both", "Historical"}) =>
              /\ boxPlotData[1].q1 = 20
              /\ boxPlotData[1].median = 30
              /\ boxPlotData[1].q3 = 40

\* Both sources have a summary, and the Historical one is over the values
\* 10, 20, 30, 40 that the file held in another order.
C11_Witness ==
    /\ Shown
    /\ HistoricalValues = <<30, 10, 40, 20>>
    /\ Len(boxPlotData) = 2
    /\ boxPlotData[1].name = "Historical" /\ boxPlotData[2].name = "Predicted"
    /\ boxPlotData[1].q1 = 20 /\ boxPlotData[1].median = 30 /\ boxPlotData[1].q3 = 40

\* C12: the delta insight is emitted exactly when the source filter is Both
\* and the Working Set has Historical and Predicted records; it is then the
\* first insight, a warning when changePercent > 10, a success when
\* changePercent < -10 and an info otherwise (at exactly +10 and -10 too);
\* Historical [40,50,60] with Predicted [70,80,90] gives a warning with
\* "increase by 60.0%".  Checked under SpecStats.
C12_DeltaInsight ==
    Shown =>
        LET nh  == Len(HistoricalValues)
            np  == Len(PredictedValues)
            sh  == SumSeq(HistoricalValues)
            sp  == SumSeq(PredictedValues)
            \* changePercent = 100 * num / den, with den > 0 when sh # 0
            num == Sign(sh) * (sp * nh - sh * np)
            den == Abs(sh) * np
            due == dataTypeFilter = "Both" /\ nh > 0 /\ np > 0
        IN  /\ due <=> \E i \in 1..Len(insights) : RuleOf(insights[i]) = 1
            /\ due => RuleOf(insights[1]) = 1
            /\ (due /\ sh # 0) =>
                  /\ 100 * num > 10 * den  <=> insights[1].type = "warning"
                  /\ 100 * num < -10 * den <=> insights[1].type = "success"
                  /\ (100 * num <= 10 * den /\ 100 * num >= -10 * den)
                        <=> insights[1].type = "info"
            /\ (due /\ HistoricalValues = <<40, 50, 60>>
                    /\ PredictedValues = <<70, 80, 90>>) =>
                  /\ insights[1].type = "warning"
                  /\ insights[1].message.text = "is projected to increase by"
                  /\ insights[1].message.number =
                        <<[k |-> "decimal", neg |-> FALSE, tenths |-> 600]>>

\* The Predicted mean is exactly 10% above the Historical mean and the first
\* insight is the info one, showing +10.0%.
C12_Witness ==
    /\ Shown /\ dataTypeFilter = "Both"
    /\ HistoricalValues # <<>> /\ PredictedValues # <<>>
    /\ 10 * SumSeq(PredictedValues) * Len(HistoricalValues)
          = 11 * SumSeq(HistoricalValues) * Len(PredictedValues)
    /\ insights[1].type = "info"
    /\ insights[1].message.number = <<[k |-> "decimal", neg |-> FALSE, tenths |-> 100]>>

\* The sum of the squares of a list.
SumOfSquares(list) == SumSeq([i \in 1..Len(list) |-> list[i] * list[i]])

\* C13: for every non-empty Working Set there is one variability insight,
\* from the population variance (divide by n): with CV = 100 * sqrt(variance)
\* / mean and a positive mean, a warning when CV > 20, a success when
\* CV < 10 and an info otherwise (CV = 10 and CV = 20 are info); for
\* [10,10,10,10] it is the success "Low variability" with CV 0.0%.  With
\* n values of sum s and sum of squares q, CV^2 = 10000 * (n*q - s^2) / s^2.
\* Checked under SpecStats.
C13_Variability ==
    (Shown /\ filteredData # <<>>) =>
        LET n == Len(Values)
            s == SumSeq(Values)
            d == n * SumOfSquares(Values) - s * s
        IN  /\ Cardinality({i \in 1..Len(insights) : RuleOf(insights[i]) = 3}) = 1
            /\ s > 0 =>
                  /\ 25 * d > s * s  <=> VariabilityOf(insights).type = "warning"
                  /\ 100 * d < s * s <=> VariabilityOf(insights).type = "success"
                  /\ (25 * d <= s * s /\ 100 * d >= s * s)
                        <=> VariabilityOf(insights).type = "info"
            /\ Values = <<10, 10, 10, 10>> =>
                  /\ VariabilityOf(insights).type = "success"
                  /\ VariabilityOf(insights).message.text = "Low variability"
                  /\ VariabilityOf(insights).message.number =
                        <<[k |-> "decimal", neg |-> FALSE, tenths |-> 0]>>

\* The Working Set has a CV of exactly 20 and the insight is the info one,
\* showing 20.0%.
C13_Witness ==
    /\ Shown /\ filteredData # <<>>
    /\ SumSeq(Values) > 0
    /\ 25 * (Len(Values) * SumOfSquares(Values) - SumSeq(Values) * SumSeq(Values))
          = SumSeq(Values) * SumSeq(Values)
    /\ VariabilityOf(insights).type = "info"
    /\ VariabilityOf(insights).message.number =
          <<[k |-> "decimal", neg |-> FALSE, tenths |-> 200]>>

\* A step of the load failed: a fetch threw or answered not ok, a text()
\* read threw, or a parse reported row errors.
LoadFailed ==
    \E s \in Sources : \/ response[s] \in {"notok", "rejected"}
                       \/ text[s] = "rejected"
                       \/ parse[s] = "rejected"

Occurrences(list, r) == Cardinality({i \in 1..Len(list) : list[i] = r})

\* The list holds exactly the records of the two lists, each as often.
MadeOf(list, first, second) ==
    /\ Len(list) = Len(first) + Len(second)
    /\ \A i \in 1..Len(list) :
          Occurrences(list, list[i]) = Occurrences(first, list[i]) + Occurrences(second, list[i])

\* C15: under any interleaving of the two source loads, no Series exists
\* before the load has finished; the Series is set in the step that finishes
\* the load, when both parses have resolved or a step has failed, and is
\* never set again; it then holds exactly the records of both CSV files, or
\* it is the sample data, never the records of one file only nor a mix.
\* Checked under Spec.
C15_SeriesAtomic ==
    /\ [](pc # "done" => source = "none" /\ data = <<>>)
    /\ [](pc = "done" =>
            \/ /\ source = "csv"
               /\ \A s \in Sources : response[s] = "ok" /\ text[s] = "resolved"
                                        /\ parse[s] = "resolved"
               /\ MadeOf(data, processPatientData(rawRows["Historical"], "Historical"),
                         processPatientData(rawRows["Predicted"], "Predicted"))
            \/ /\ source = "sample"
               /\ LoadFailed
               /\ \E rnd \in RandomSequences : data = generateSampleData(rnd))
    /\ [][/\ source # "none" => (source' = source /\ data' = data)
          /\ (source = "none" /\ source' # "none") =>
                (pc' = "done" /\ (LoadFailed' \/ \A s \in Sources : parse'[s] = "resolved"))]_vars

\* The Series was built from two CSV files that both hold rows.
C15_Witness ==
    /\ Shown /\ source = "csv"
    /\ rawRows["Historical"] # <<>> /\ rawRows["Predicted"] # <<>>
    /\ \E i, j \in 1..Len(data) :
          data[i].dataType = "Historical" /\ data[j].dataType = "Predicted"

\* C16: whenever changePercent is computed (both subsets non-empty) with a
\* Historical mean of 0, in the metrics and in the delta rule, the result is
\* a finite number or undefined, never NaN or an infinity, and the delta
\* insight's message embeds neither.  Checked under SpecView.
C16_ZeroHistoricalMean ==
    (/\ Shown
     /\ HistoricalValues # <<>> /\ PredictedValues # <<>>
     /\ SumSeq(HistoricalValues) = 0) =>
        /\ metrics.changePercent = <<>> \/ metrics.changePercent[1].k = "fin"
        /\ \A i \in 1..Len(insights) :
              RuleOf(insights[i]) = 1 =>
                 \A t \in 1..Len(insights[i].message.number) :
                    insights[i].message.number[t].k \notin {"NaN", "Infinity"}

\* The trend insights of the list.
TrendsOf(list) ==
    LET IsTrend(x) == RuleOf(x) = 2
    IN  SelectSeq(list, IsTrend)

\* C17: generateInsights emits exactly one trend insight when the Working Set
\* has at least 2 points and none when it has 1; the slope is the
\* least-squares slope of the values against the index 0..n-1, whose
\* denominator n * sum x^2 - (sum x)^2 = n^2 (n^2 - 1) / 12 is not zero for
\* n >= 2; the insight is the info 'upward trend' when slope > 0.01,
\* 'downward trend' when slope < -0.01 and 'stable trend' when
\* |slope| <= 0.01.  Checked under SpecStats.
C17_Trend ==
    (Shown /\ filteredData # <<>>) =>
        LET n   == Len(Values)
            sx  == (n * (n - 1)) \div 2
            sxx == ((n - 1) * n * (2 * n - 1)) \div 6
            sy  == SumSeq(Values)
            sxy == SumSeq([i \in 1..n |-> (i - 1) * Values[i]])
            num == n * sxy - sx * sy
            den == n * sxx - sx * sx
            t   == TrendsOf(insights)
        IN  /\ n = 1 => t = <<>>
            /\ n >= 2 =>
                  /\ den > 0 /\ 12 * den = n * n * (n * n - 1)
                  /\ Len(t) = 1
                  /\ t[1].type = "info"
                  /\ 100 * num > den  <=> t[1].message.text = "shows an upward trend"
                  /\ 100 * num < -den <=> t[1].message.text = "shows a downward trend"
                  /\ (100 * num <= den /\ 100 * num >= -den)
                        <=> t[1].message.text = "shows a stable trend"

\* Ten values whose slope is not 0 and at most 0.01 in size: the trend
\* insight is the stable one.
C17_Witness ==
    /\ Shown /\ Len(Values) = 10
    /\ 10 * SumSeq([i \in 1..10 |-> (i - 1) * Values[i]]) # 45 * SumSeq(Values)
    /\ Len(TrendsOf(insights)) = 1
    /\ TrendsOf(insights)[1].message.text = "shows a stable trend"

\* Q1 and Q3 of the claim, over all the values of the Working Set.
C18_Q1 == RankedValue(Values, (Len(Values) * 25) \div 100)

C18_Q3 == RankedValue(Values, (Len(Values) * 75) \div 100)

\* The values strictly below Q1 - 1.5 IQR or strictly above Q3 + 1.5 IQR
\* (both sides doubled).
C18_Outliers ==
    {i \in 1..Len(Values) :
        \/ 2 * Values[i] < 2 * C18_Q1 - 3 * (C18_Q3 - C18_Q1)
        \/ 2 * Values[i] > 2 * C18_Q3 + 3 * (C18_Q3 - C18_Q1)}

\* C18: the outlier rule takes Q1 and Q3 at indices floor(n/4) and
\* floor(3n/4) of the ascending sort of all Working Set values, counts the
\* values strictly outside [Q1 - 1.5 IQR, Q3 + 1.5 IQR], and emits a warning
\* carrying the count, as the last insight, exactly when the count is
\* greater than 0; a value on a bound is no outlier, and a single-value or
\* all-equal Working Set gives no outlier insight.  Checked under SpecStats.
C18_OutlierRule ==
    (Shown /\ filteredData # <<>>) =>
        LET count == Cardinality(C18_Outliers)
            found == {i \in 1..Len(insights) : RuleOf(insights[i]) = 4}
        IN  /\ count > 0 <=> found # {}
            /\ count > 0 =>
                  /\ found = {Len(insights)}
                  /\ insights[Len(insights)].type = "warning"
                  /\ insights[Len(insights)].message.number =
                        <<[k |-> "integer", neg |-> FALSE, tenths |-> count]>>
            /\ (\A i \in 1..Len(Values) : Values[i] = Values[1]) => found = {}

\* A value lies exactly on the lower bound of a Working Set with IQR > 0,
\* and no outlier insight is emitted.
C18_Witness ==
    /\ Shown /\ filteredData # <<>>
    /\ C18_Q3 > C18_Q1
    /\ \E i \in 1..Len(Values) : 2 * Values[i] = 2 * C18_Q1 - 3 * (C18_Q3 - C18_Q1)
    /\ \A i \in 1..Len(insights) : RuleOf(insights[i]) # 4

\* C19: for a non-empty Working Set, metrics.dateSpan is
\* ceil((dateRange.end - dateRange.start) / 1 day) of the Filter Criteria,
\* whatever the timestamps of the records; totalRecords is the size of the
\* Working Set, historicalRecords and predictedRecords the sizes of its two
\* source subsets.  Checked under Spec.
C19_DateSpanAndCounts ==
    (Shown /\ filteredData # <<>>) =>
        LET hours == dateRange.end[1] - dateRange.start[1]
        IN  /\ 24 * metrics.dateSpan >= hours
            /\ 24 * (metrics.dateSpan - 1) < hours
            /\ metrics.totalRecords = Len(filteredData)
            /\ metrics.historicalRecords =
                  Cardinality({i \in 1..Len(filteredData) :
                                 filteredData[i].dataType = "Historical"})
            /\ metrics.predictedRecords =
                  Cardinality({i \in 1..Len(filteredData) :
                                 filteredData[i].dataType = "Predicted"})

\* The date range spans more than a day, the records of the Working Set
\* lie within two hours, and the date span is 2.
C19_Witness ==
    /\ Shown /\ Len(filteredData) >= 2
    /\ filteredData[Len(filteredData)].datetime[1] - filteredData[1].datetime[1] <= 2
    /\ dateRange.end[1] - dateRange.start[1] > 24
    /\ metrics.dateSpan = 2
    /\ metrics.historicalRecords > 0 /\ metrics.predictedRecords > 0

\* The instants a row offers: those of its datetime, date and timestamp
\* columns that hold a text parsing to a valid instant.
C20_Instants(row) ==
    {c.v : c \in {x \in {row.datetime, row.date, row.timestamp} : x.k = "datestring"}}

\* C20: in processPatientData, when a datetime, date or timestamp column of
\* the row is present and parses to a valid instant, the record's datetime
\* is that instant; only when no such column gives a valid instant is the
\* datetime synthesized, as base + rowIndex hours, base being 180 days
\* before now for Historical and now for Predicted, rowIndex the position of
\* the row in its batch.  Checked under SpecRows.
C20_TimestampResolution ==
    source \in Sources =>
        \A i \in 1..Len(data) :
            LET row  == rawRows[source][i]
                base == IF source = "Historical" THEN Now - 180 * 24 ELSE Now
            IN  /\ C20_Instants(row) # {} => data[i].datetime[1] \in C20_Instants(row)
                /\ C20_Instants(row) = {} => data[i].datetime = <<base + (i - 1)>>

\* C21: for each of the four attribute keys the record of processPatientData
\* holds the raw value exactly when the raw value is a number (the number 0
\* is kept as 0) and is then in the Working Set of that attribute over the
\* whole date range; a missing, null or text value leaves the attribute
\* undefined, never 0, and the record is in no Working Set of that
\* attribute, whatever the source filter; the record's dataType is the
\* source tag passed in.  Checked under SpecRows.
C21_AttributeExtraction ==
    source \in Sources =>
        \A i \in 1..Len(data) : \A a \in AttributeKey :
            LET raw   == rawRows[source][i][a]
                whole == [start |-> MinDate(data), end |-> MaxDate(data)]
                In(f) == \E j \in 1..Len(FilterData(data, a, f, whole)) :
                            FilterData(data, a, f, whole)[j] = data[i]
            IN  /\ data[i].dataType = source
                /\ raw.k = "number" =>
                      /\ data[i][a] = <<raw.v>>
                      /\ In("Both") /\ In(source)
                /\ raw.k # "number" =>
                      /\ data[i][a] = Undefined
                      /\ data[i][a] # <<0>>
                      /\ \A f \in DataTypeFilter : ~In(f)

\* A batch was processed in which one row holds the number 0 under one
\* attribute key and is kept with the value 0, and one row holds a null or a
\* text under a blood-pressure key and has that attribute undefined.
C21_Witness ==
    /\ source \in Sources
    /\ \E i \in 1..Len(data) : \E a \in AttributeKey :
          /\ rawRows[source][i][a] = NumCell(0)
          /\ data[i][a] = <<0>>
    /\ \E i \in 1..Len(data) : \E a \in {"SystolicBP", "DiastolicBP"} :
          /\ rawRows[source][i][a] \in {NullCell, TextCell}
          /\ data[i][a] = Undefined
          /\ data[i].dataType = source

\* The insights of rule 1 among a list of insights.
DeltasOf(list) ==
    LET IsDelta(x) == RuleOf(x) = 1
    IN  SelectSeq(list, IsDelta)

\* Math.abs of a JavaScript number.
AbsOf(x) ==
    IF IsFinite(x) THEN Fin(Abs(x.n), x.d)
    ELSE IF x = NaN THEN NaN ELSE Infinity(1)

\* The type and the printed number of the delta insight that belongs to a
\* changePercent value cp.
C22_DeltaFor(cp) ==
    IF Greater(cp, 10) THEN [type |-> "warning", number |-> <<toFixed1(cp)>>]
    ELSE IF Less(cp, -10) THEN [type |-> "success", number |-> <<toFixed1(AbsOf(cp))>>]
    ELSE [type |-> "info", number |-> <<toFixed1(cp)>>]

\* C22: in every state of the application run, whatever attribute, source
\* filter and date range were chosen after the load, the insights hold a
\* delta insight if and only if metrics.changePercent is defined; there is
\* at most one; and when both exist the type and the printed number of the
\* insight are those of the metrics' changePercent value.  A defined
\* changePercent occurs only under the filter Both, the only filter that
\* leaves records of both sources in the Working Set.  Checked under Spec.
C22_MetricsInsightsAgree ==
    LET deltas == DeltasOf(insights)
    IN  /\ Len(deltas) <= 1
        /\ Len(deltas) = 1 <=> metrics.changePercent # Undefined
        /\ metrics.changePercent # Undefined =>
              /\ dataTypeFilter = "Both"
              /\ deltas[1].type = C22_DeltaFor(metrics.changePercent[1]).type
              /\ deltas[1].message.number =
                    C22_DeltaFor(metrics.changePercent[1]).number

\* After the load another attribute than the initial one is selected, the
\* metrics hold a finite changePercent other than 0 and the insights hold
\* the delta insight.
C22_Witness ==
    /\ pc = "done"
    /\ selectedAttribute = "HeartRate"
    /\ metrics.changePercent # Undefined
    /\ IsFinite(metrics.changePercent[1])
    /\ metrics.changePercent[1] # Fin(0, 1)
    /\ Len(DeltasOf(insights)) = 1

\* The number of insights of rule r among a list of insights.
CountOfRule(list, r) ==
    LET IsOfRule(x) == RuleOf(x) = r
    IN  Len(SelectSeq(list, IsOfRule))

\* C23: whenever the Working Set is not empty the insights are between 1
\* and 4, with exactly one variability insight and at most one insight of
\* each of the delta, trend and outlier rules; when the Working Set holds
\* exactly one record the insights are the variability insight alone.
\* Checked under SpecStats.
C23_InsightCount ==
    filteredData # <<>> =>
        /\ Len(insights) \in 1..4
        /\ CountOfRule(insights, 3) = 1
        /\ \A r \in {1, 2, 4} : CountOfRule(insights, r) <= 1
        /\ Len(filteredData) = 1 =>
              /\ Len(insights) = 1
              /\ RuleOf(insights[1]) = 3
              /\ insights[1].icon = "bar-chart"

\* The Working Set holds exactly one record, left by a source filter out of
\* a Series of several records, and the insights hold one insight.
C23_Witness ==
    /\ Len(filteredData) = 1
    /\ Len(data) > 1
    /\ dataTypeFilter # "Both"
    /\ Len(insights) = 1

====
